---------------------------- MODULE Spec2Model ----------------------------
(***************************************************************************)
(* A model of the contract inspector (src/contract_inspector): the retry   *)
(* policy (utils.retry_with_backoff), the chain client's invocation and    *)
(* batch fan-out (web3_client), the rate limited metadata transport        *)
(* (etherscan_client) and the inspection pipeline (contract_analyzer).     *)
(*                                                                         *)
(* The code is written as operators over records, one operator per         *)
(* function or per straight-line segment between two awaits; the          *)
(* specifications wire these operators to their callers:                   *)
(*   SpecRetry  one retry_with_backoff loop over an unreliable function    *)
(*   SpecBatch  one batch_call_view_functions over a list of names         *)
(*   SpecFlight the same batch, each RPC call in two steps                 *)
(*   SpecRate   concurrent _make_request callers, the throttler, a clock   *)
(*   Spec       one inspection request run by a ContractAnalyzer           *)
(*   SpecLive   Spec with the scheduling of the event loop                 *)
(*   SpecOverlap  two inspection requests run by one new ContractAnalyzer  *)
(*   SpecSummary  one get_contract_summary                                 *)
(*   SpecFilter, SpecClassify, SpecFetchAbi  one call of                   *)
(*              extract_view_functions, of the classification of a call    *)
(*              result, of get_contract_abi                                *)
(***************************************************************************)
EXTENDS Integers, Sequences, FiniteSets, TLC

VARIABLES
    rt,         \* SpecRetry: the frame of the running retry_with_backoff
    rtMax,      \* SpecRetry: its max_retries argument
    rtHist,     \* SpecRetry: what each call of func did, in call order
    function_names, \* SpecBatch: the argument of batch_call_view_functions
    contract,   \* SpecBatch: the names contract.functions resolves
    bpc,        \* SpecBatch: "gather" | "awaiting" | "done"
    tasks,      \* SpecBatch: the call_view_function tasks, by position
    rpcLog,     \* SpecBatch: per position, the RPC calls the endpoint saw
    doneOrder,  \* SpecBatch: the positions in the order their tasks ended
    batchResult, \* SpecBatch: the list batch_call_view_functions returned
    now,        \* SpecRate: the clock, in ticks
    rate_limit, \* SpecRate: Throttler.rate_limit, from the configuration
    task_logs,  \* SpecRate: Throttler._task_logs, the times of the slots given
    callers,    \* SpecRate: the running _make_request calls
    getTimes,   \* SpecRate: the times of the HTTP GETs of the last second
    initialized, \* Spec: ContractAnalyzer._initialized
    connection_verified, \* Spec: Web3Client._connection_verified
    reqs,       \* Spec: the analyze_contract calls, by request
    running,    \* Spec: the request the event loop is running, 0 for none
    verifyCalls, \* Spec: how many times verify_connection was called
    service,    \* Spec: the ABI the metadata service holds for the contract
    arg,        \* a call of one function alone: its argument
    ret         \* a call of one function alone: what it has returned, if it has

retryVars == <<rt, rtMax, rtHist>>

batchVars ==
    <<function_names, contract, bpc, tasks, rpcLog, doneOrder, batchResult>>

rateVars == <<now, rate_limit, task_logs, callers, getTimes>>

inspectVars ==
    <<initialized, connection_verified, reqs, running, verifyCalls, service>>

callVars == <<arg, ret>>

vars ==
    <<arg, ret, rt, rtMax, rtHist,
      function_names, contract, bpc, tasks, rpcLog, doneOrder, batchResult,
      now, rate_limit, task_logs, callers, getTimes,
      initialized, connection_verified, reqs, running, verifyCalls, service>>

-----------------------------------------------------------------------------
(* config.max_retries, which the clients pass to retry_with_backoff: the   *)
(* value of MAX_RETRIES in the environment (3 when it is not set, config.py *)
(* line 36).  The clients are run with the value below; SpecRetry runs the *)
(* retry loop itself with every budget up to MaxBudget.                    *)

max_retries == 1

(* Defaults of retry_with_backoff's parameters, utils.py *)

base_delay == 1

backoff_factor == 2

(* Bounds of the model *)

MaxBudget == 3

MaxNames == 2

MaxRate == 2

NumCallers == 3

TicksPerSecond == 2

MaxTime == 5

MaxAbiLen == 3

-----------------------------------------------------------------------------
(* What one call of a wrapped function does: it returns a value or raises. *)

None == "None"

Values == {"v1", "v2"}

Exceptions == {"ContractLogicError", "Web3Exception", "Exception"}

Returns(v) == [ok |-> TRUE, val |-> v, exc |-> None]

Raises(e) == [ok |-> FALSE, val |-> None, exc |-> e]

CallOutcomes == {Returns(v) : v \in Values} \cup {Raises(e) : e \in Exceptions}

-----------------------------------------------------------------------------
(* utils.retry_with_backoff.  The frame of one running call:               *)
(*   pc             "attempt"  about to call func (line 182)               *)
(*                  "sleeping" suspended in asyncio.sleep (line 194)       *)
(*                  "returned" left by return (lines 184, 186)             *)
(*                  "raised"   left by raise last_exception (line 196)     *)
(*   attempt        the loop variable                                      *)
(*   last_exception the local of that name                                 *)
(*   result         the value returned                                     *)
(*   calls          how many times func was called                         *)
(*   slept          the delays passed to asyncio.sleep, in order           *)

RetryFrame ==
    [pc |-> "attempt", attempt |-> 0, last_exception |-> None,
     result |-> None, calls |-> 0, slept |-> <<>>]

(* A retry loop that remembers the first exception instead of the last. *)
retry_first_exception(r, maxRetries, out) ==
    IF out.ok
    THEN [r EXCEPT !.pc = "returned", !.result = out.val, !.calls = @ + 1]
    ELSE LET e == IF r.last_exception = None THEN out.exc
                  ELSE r.last_exception
         IN IF r.attempt = maxRetries
            THEN [r EXCEPT !.pc = "raised", !.last_exception = e,
                           !.calls = @ + 1]
            ELSE [r EXCEPT !.pc = "sleeping", !.last_exception = e,
                           !.calls = @ + 1,
                           !.slept = Append(@, base_delay * backoff_factor ^ r.attempt)]

(* A retry loop that sleeps base_delay before every retry. *)
retry_constant_delay(r, maxRetries, out) ==
    IF out.ok
    THEN [r EXCEPT !.pc = "returned", !.result = out.val, !.calls = @ + 1]
    ELSE IF r.attempt = maxRetries
         THEN [r EXCEPT !.pc = "raised", !.last_exception = out.exc,
                        !.calls = @ + 1]
         ELSE [r EXCEPT !.pc = "sleeping", !.last_exception = out.exc,
                        !.calls = @ + 1,
                        !.slept = Append(@, base_delay)]

(* A retry loop that gives up one attempt early: range(max_retries). *)
retry_one_short(r, maxRetries, out) ==
    IF out.ok
    THEN [r EXCEPT !.pc = "returned", !.result = out.val, !.calls = @ + 1]
    ELSE IF r.attempt + 1 >= maxRetries
         THEN [r EXCEPT !.pc = "raised", !.last_exception = out.exc,
                        !.calls = @ + 1]
         ELSE [r EXCEPT !.pc = "sleeping", !.last_exception = out.exc,
                        !.calls = @ + 1,
                        !.slept = Append(@, base_delay * backoff_factor ^ r.attempt)]

(* A retry loop that does not retry a revert of the contract. *)
retry_unless_revert(r, maxRetries, out) ==
    IF out.ok
    THEN [r EXCEPT !.pc = "returned", !.result = out.val, !.calls = @ + 1]
    ELSE IF r.attempt = maxRetries \/ out.exc = "ContractLogicError"
         THEN [r EXCEPT !.pc = "raised", !.last_exception = out.exc,
                        !.calls = @ + 1]
         ELSE [r EXCEPT !.pc = "sleeping", !.last_exception = out.exc,
                        !.calls = @ + 1,
                        !.slept = Append(@, base_delay * backoff_factor ^ r.attempt)]

(* One pass through the loop body, lines 181-194, func doing `out`. *)
retry_with_backoff(r, maxRetries, out) ==
    IF out.ok
    THEN [r EXCEPT !.pc = "returned", !.result = out.val, !.calls = @ + 1]
    ELSE IF r.attempt = maxRetries
         THEN [r EXCEPT !.pc = "raised", !.last_exception = out.exc,
                        !.calls = @ + 1]
         ELSE [r EXCEPT !.pc = "sleeping", !.last_exception = out.exc,
                        !.calls = @ + 1,
                        !.slept = Append(@, base_delay * backoff_factor ^ r.attempt)]

(* asyncio.sleep returns: the for statement takes the next attempt. *)
retry_resume(r) ==
    [r EXCEPT !.pc = "attempt", !.attempt = @ + 1]

-----------------------------------------------------------------------------
(* SpecRetry: one retry_with_backoff(func, max_retries = rtMax). *)

CallIdle ==
    /\ arg = <<>>
    /\ ret = <<>>

BatchIdle ==
    /\ function_names = <<>>
    /\ contract = {}
    /\ bpc = "idle"
    /\ tasks = <<>>
    /\ rpcLog = <<>>
    /\ doneOrder = <<>>
    /\ batchResult = <<>>

RateIdle ==
    /\ now = 0
    /\ rate_limit = 1
    /\ task_logs = <<>>
    /\ callers = <<>>
    /\ getTimes = <<>>

InspectIdle ==
    /\ initialized = FALSE
    /\ connection_verified = FALSE
    /\ reqs = <<>>
    /\ running = 0
    /\ verifyCalls = 0
    /\ service = <<>>

InitRetry ==
    /\ rt = RetryFrame
    /\ rtMax \in 0..MaxBudget
    /\ rtHist = <<>>
    /\ BatchIdle
    /\ RateIdle
    /\ InspectIdle
    /\ CallIdle

RetryCall ==
    /\ rt.pc = "attempt"
    /\ \E out \in CallOutcomes :
        /\ rt' = retry_with_backoff(rt, rtMax, out)
        /\ rtHist' = Append(rtHist, out)
    /\ UNCHANGED <<callVars, rtMax, batchVars, rateVars, inspectVars>>

RetryWake ==
    /\ rt.pc = "sleeping"
    /\ rt' = retry_resume(rt)
    /\ UNCHANGED <<callVars, rtMax, rtHist, batchVars, rateVars, inspectVars>>

NextRetry == RetryCall \/ RetryWake

SpecRetry == InitRetry /\ [][NextRetry]_vars

(* C5. Retry outcome: when some attempt within the budget succeeds, the    *)
(* call returns the value of the first successful attempt and raises       *)
(* nothing; when every attempt up to the budget fails, the exception       *)
(* raised to the caller is the one the final attempt raised.               *)
RetryOutcome ==
    LET n == Len(rtHist)
        Failed(i) == ~rtHist[i].ok
    IN /\ (\E i \in 1..n : rtHist[i].ok) =>
            /\ rt.pc = "returned"
            /\ rtHist[n].ok
            /\ \A i \in 1..(n - 1) : Failed(i)
            /\ rt.result = rtHist[n].val
       /\ rt.pc = "returned" => \E i \in 1..n : rtHist[i].ok
       /\ rt.pc = "raised" =>
            /\ \A i \in 1..n : Failed(i)
            /\ rt.last_exception = rtHist[n].exc

(* Every attempt of a budget of three failed, the first and the last with  *)
(* different exceptions.                                                   *)
RetryOutcomeWitness ==
    /\ rt.pc = "raised"
    /\ rtMax = 3
    /\ Len(rtHist) = 4
    /\ rtHist[1].exc # rtHist[4].exc

(* C6. Retry budget: with budget M the function is attempted at most M+1   *)
(* times, exactly M+1 times when every attempt fails, and never again      *)
(* after its first success.                                                *)
RetryBudget ==
    LET n == Len(rtHist)
    IN /\ n <= rtMax + 1
       /\ rt.pc = "raised" => n = rtMax + 1
       /\ (n < rtMax + 1 /\ \A i \in 1..n : ~rtHist[i].ok) =>
            rt.pc \in {"attempt", "sleeping"}
       /\ \A i \in 1..n : rtHist[i].ok => (i = n /\ rt.pc = "returned")

(* The default budget of three exhausted: four attempts, all failed. *)
RetryBudgetWitness ==
    /\ rtMax = 3
    /\ rt.pc = "raised"
    /\ Len(rtHist) = 4

(* C18. Backoff schedule: no sleep comes before the first attempt; after    *)
(* the failed attempt of index k that is not the last of the budget the     *)
(* loop sleeps base_delay * backoff_factor^k, which is 1, 2, 4 for a budget *)
(* of three and grows strictly; after the last failed attempt it raises     *)
(* without a sleep.                                                         *)
BackoffSchedule ==
    LET n == Len(rtHist)
        m == Len(rt.slept)
    IN /\ rt.slept = [k \in 1..m |-> base_delay * backoff_factor ^ (k - 1)]
       /\ \A k \in 1..(m - 1) : rt.slept[k] < rt.slept[k + 1]
       /\ rt.pc \in {"returned", "raised"} => m = n - 1
       /\ rt.pc \in {"attempt", "sleeping"} => m = n
       /\ (rt.pc = "raised" /\ rtMax = 3) => rt.slept = <<1, 2, 4>>

(* A budget of three exhausted after the sleeps 1, 2 and 4. *)
BackoffScheduleWitness ==
    /\ rtMax = 3
    /\ rt.pc = "raised"
    /\ rt.slept = <<1, 2, 4>>
    /\ rt.calls = 4

-----------------------------------------------------------------------------
(* web3_client.Web3Client.call_view_function and batch_call_view_functions *)

FunctionNames == {"name", "totalSupply"}

(* The values ABI decoding produces.  An integer is held as four limbs in  *)
(* base 10^6, most significant first: <<a, b, c, d>> is                    *)
(* a*10^18 + b*10^12 + c*10^6 + d.                                         *)
StrValue(chars) == [kind |-> "str", v |-> chars]

IntValue(limbs) == [kind |-> "int", v |-> limbs]

BoolValue(b) == [kind |-> "bool", v |-> b]

(* func().call() reads the chain state, which does not change during an    *)
(* inspection: a call returns the value the contract holds for that        *)
(* function, or raises.                                                    *)
ValueOf(name) ==
    CASE name = "name" -> StrValue("Token")
      [] name = "totalSupply" -> IntValue(<<1000, 0, 0, 0>>)
      [] OTHER -> StrValue(name)

RpcOutcomes(name) == {Returns(ValueOf(name))} \cup {Raises(e) : e \in Exceptions}

(* The dictionaries call_view_function returns, and an exception object. *)
SuccessDict(name, v) ==
    [function_name |-> name, status |-> "success", result |-> v, error |-> None]

(* Python's None where a decoded value may stand. *)
NoneValue == [kind |-> "None"]

ErrorDict(name, why) ==
    [function_name |-> name, status |-> "error", result |-> NoneValue,
     error |-> why]

(* The task has not ended. *)
NoOutcome == [status |-> "pending"]

ExceptionObject(e) == [exception |-> e]

IsException(x) == "exception" \in DOMAIN x

(* Lines 136-159: the dictionary built from what retry_with_backoff did.   *)
(* The except clauses are tried in order; handlerRaises is an exception    *)
(* raised while a handler formats its message (str(e)), which leaves       *)
(* call_view_function.                                                     *)
call_view_function_result(name, r, handlerRaises) ==
    IF r.pc = "returned" THEN SuccessDict(name, r.result)
    ELSE IF handlerRaises THEN ExceptionObject("RuntimeError")
    ELSE IF r.last_exception = "ContractLogicError"
         THEN ErrorDict(name, "ContractLogic")
    ELSE IF r.last_exception = "Web3Exception"
         THEN ErrorDict(name, "Web3")
    ELSE ErrorDict(name, "Unknown")

(* A task running call_view_function(contract, name):                      *)
(*   pc      "new" created, not yet run | "sleeping" suspended in a        *)
(*           backoff sleep | "done"                                        *)
(*   retry   the frame of its retry_with_backoff, while it runs            *)
(*   outcome what the task ended with: a dictionary or an exception        *)
NewTask(name) ==
    [name |-> name, pc |-> "new", retry |-> RetryFrame, outcome |-> NoOutcome]

(* Lines 118-126: the lookup among the handle's callable members. *)
FunctionExists(members, name) == name \in members

(* A call_view_function that calls whatever it is given. *)
call_view_function_no_lookup(t, members, out, handlerRaises) ==
    LET r0 == IF t.pc = "new" THEN RetryFrame ELSE retry_resume(t.retry)
        r1 == retry_with_backoff(r0, max_retries, out)
    IN IF r1.pc = "sleeping"
       THEN [t EXCEPT !.pc = "sleeping", !.retry = r1]
       ELSE [t EXCEPT !.pc = "done", !.retry = RetryFrame,
                      !.outcome =
                          call_view_function_result(t.name, r1, handlerRaises)]

(* One uninterrupted run of the task, from its start or from the end of a  *)
(* sleep to its next await or its end: lines 118-134 and 181-194.  func()  *)
(* .call() is synchronous, so the call and what follows it up to the next  *)
(* asyncio.sleep is one step of the event loop.                            *)
call_view_function(t, members, out, handlerRaises) ==
    IF t.pc = "new" /\ ~FunctionExists(members, t.name)
    THEN [t EXCEPT !.pc = "done", !.outcome = ErrorDict(t.name, "NotFound")]
    ELSE LET r0 == IF t.pc = "new" THEN RetryFrame ELSE retry_resume(t.retry)
             r1 == retry_with_backoff(r0, max_retries, out)
         IN IF r1.pc = "sleeping"
            THEN [t EXCEPT !.pc = "sleeping", !.retry = r1]
            ELSE [t EXCEPT !.pc = "done", !.retry = RetryFrame,
                           !.outcome =
                               call_view_function_result(t.name, r1, handlerRaises)]

(* Whether that run reaches func().call(). *)
CallsRpc(t, members) == ~(t.pc = "new" /\ ~FunctionExists(members, t.name))

(* Results handed over in the order the tasks ended. *)
gather_as_completed(ts, order) ==
    [k \in 1..Len(order) |-> ts[order[k]].outcome]

(* asyncio.gather with return_exceptions=True, line 182: the outcomes  *)
(* of the tasks in the order of the tasks, exceptions included.            *)
gather(ts, order) ==
    [i \in 1..Len(ts) |-> ts[i].outcome]

RECURSIVE drop_exceptions(_, _)
(* A loop that skips the tasks that raised. *)
drop_exceptions(results, names) ==
    IF results = <<>> THEN <<>>
    ELSE LET rest == drop_exceptions(Tail(results), Tail(names))
         IN IF IsException(Head(results)) THEN rest
            ELSE <<Head(results)>> \o rest

(* Lines 184-196: an exception among the results becomes an error          *)
(* dictionary carrying the name at its index.                              *)
batch_call_view_functions(results, names) ==
    [i \in 1..Len(results) |->
        IF IsException(results[i])
        THEN ErrorDict(names[i], "CallException")
        ELSE results[i]]

-----------------------------------------------------------------------------
(* SpecBatch: one batch_call_view_functions(contract, function_names).     *)

RECURSIVE SeqsUpTo(_, _)
SeqsUpTo(S, n) ==
    IF n = 0 THEN {<<>>}
    ELSE LET shorter == SeqsUpTo(S, n - 1)
         IN shorter \cup {Append(q, x) : q \in shorter, x \in S}

NoRpc == [calls |-> 0, last |-> None, outs |-> <<>>, slept |-> <<>>]

RetryIdle ==
    /\ rt = RetryFrame
    /\ rtMax = 0
    /\ rtHist = <<>>

InitBatch ==
    /\ RetryIdle
    /\ function_names \in SeqsUpTo(FunctionNames, MaxNames)
    /\ contract \in SUBSET FunctionNames
    /\ bpc = "gather"
    /\ tasks = <<>>
    /\ rpcLog = <<>>
    /\ doneOrder = <<>>
    /\ batchResult = <<>>
    /\ RateIdle
    /\ InspectIdle
    /\ CallIdle

(* Lines 176-182: the coroutines are made and handed to gather, which      *)
(* schedules one task for each, in order; the batch awaits them.           *)
BatchGather ==
    /\ bpc = "gather"
    /\ tasks' = [i \in 1..Len(function_names) |-> NewTask(function_names[i])]
    /\ rpcLog' = [i \in 1..Len(function_names) |-> NoRpc]
    /\ bpc' = "awaiting"
    /\ UNCHANGED <<callVars, retryVars, rateVars, inspectVars, function_names, contract, doneOrder, batchResult>>

(* The event loop runs task i.  New tasks are run in the order gather      *)
(* scheduled them; a sleeping task is resumed when its sleep is over.      *)
TaskRun(i) ==
    /\ bpc = "awaiting"
    /\ tasks[i].pc \in {"new", "sleeping"}
    /\ tasks[i].pc = "new" => \A j \in 1..(i - 1) : tasks[j].pc # "new"
    /\ \E out \in RpcOutcomes(tasks[i].name), handlerRaises \in BOOLEAN :
        LET t == call_view_function(tasks[i], contract, out, handlerRaises)
        IN /\ tasks' = [tasks EXCEPT ![i] = t]
           /\ rpcLog' =
                IF CallsRpc(tasks[i], contract)
                THEN [rpcLog EXCEPT ![i] =
                        [calls |-> @.calls + 1, last |-> out,
                         outs |-> Append(@.outs, out),
                         slept |-> IF t.pc = "sleeping" THEN t.retry.slept
                                   ELSE @.slept]]
                ELSE rpcLog
           /\ doneOrder' =
                IF t.pc = "done" THEN Append(doneOrder, i) ELSE doneOrder
    /\ UNCHANGED <<callVars, retryVars, rateVars, inspectVars, function_names, contract, bpc, batchResult>>

(* Every task has ended: gather's future resolves and lines 184-196 run. *)
BatchReturn ==
    /\ bpc = "awaiting"
    /\ \A i \in 1..Len(tasks) : tasks[i].pc = "done"
    /\ batchResult' =
        batch_call_view_functions(gather(tasks, doneOrder), function_names)
    /\ bpc' = "done"
    /\ UNCHANGED <<callVars, retryVars, rateVars, inspectVars, function_names, contract, tasks, rpcLog, doneOrder>>

NextBatch ==
    \/ BatchGather
    \/ \E i \in 1..Len(tasks) : TaskRun(i)
    \/ BatchReturn

SpecBatch == InitBatch /\ [][NextBatch]_vars

(* The invocation at position i failed: the name is no callable member of  *)
(* the handle, or the last call made for it raised.                        *)
InvocationFailed(i) ==
    \/ ~FunctionExists(contract, function_names[i])
    \/ ~rpcLog[i].last.ok

(* C1. Batch isolation: the batch returns one outcome for each of the N    *)
(* names; exactly the positions whose invocation failed are marked failed, *)
(* every other position is marked success and carries the value its call   *)
(* returned, whatever happened at the other positions.                     *)
BatchIsolation ==
    bpc = "done" =>
        /\ Len(batchResult) = Len(function_names)
        /\ \A i \in 1..Len(function_names) :
            /\ ~IsException(batchResult[i])
            /\ InvocationFailed(i) => batchResult[i].status = "error"
            /\ ~InvocationFailed(i) =>
                /\ batchResult[i].status = "success"
                /\ batchResult[i].result = rpcLog[i].last.val

(* Two names: the first task ended with an exception that left             *)
(* call_view_function, the second returned a value.                        *)
BatchIsolationWitness ==
    /\ bpc = "done"
    /\ Len(function_names) = 2
    /\ IsException(tasks[1].outcome)
    /\ batchResult[1].status = "error"
    /\ batchResult[2].status = "success"

(* C2. Batch ordering: outcome i carries the name at position i of the     *)
(* input, in whatever order the invocations completed.                     *)
BatchOrdering ==
    bpc = "done" =>
        /\ Len(batchResult) = Len(function_names)
        /\ \A i \in 1..Len(function_names) :
            batchResult[i].function_name = function_names[i]

(* Two different names; the first invocation was delayed by retries and    *)
(* completed after the second.                                             *)
BatchOrderingWitness ==
    /\ bpc = "done"
    /\ Len(function_names) = 2
    /\ function_names[1] # function_names[2]
    /\ doneOrder = <<2, 1>>
    /\ rpcLog[1].calls > 1
    /\ rpcLog[2].calls = 1

(* C23: call_view_function on a name that is no callable member of the     *)
(* handle returns the error dictionary of the function that does not exist *)
(* and makes no RPC call and no backoff sleep for that name.               *)
NotFoundWithoutNetwork ==
    \A i \in 1..Len(tasks) :
        ~FunctionExists(contract, tasks[i].name) =>
            /\ rpcLog[i].calls = 0
            /\ tasks[i].pc # "sleeping"
            /\ tasks[i].retry.slept = <<>> /\ rpcLog[i].slept = <<>>
            /\ tasks[i].pc = "done" =>
                    tasks[i].outcome = ErrorDict(tasks[i].name, "NotFound")
            /\ bpc = "done" =>
                    batchResult[i] = ErrorDict(function_names[i], "NotFound")

(* A batch has returned with a name the handle does not resolve, next to   *)
(* one it resolves and has called.                                         *)
NotFoundWithoutNetworkWitness ==
    /\ bpc = "done"
    /\ \E i, j \in 1..Len(tasks) :
        /\ ~FunctionExists(contract, tasks[i].name)
        /\ batchResult[i].error = "NotFound"
        /\ rpcLog[j].calls > 0

(* Every call made for position i raised ContractLogicError. *)
AlwaysReverts(i) ==
    /\ rpcLog[i].calls >= 1
    /\ \A k \in 1..Len(rpcLog[i].outs) :
            rpcLog[i].outs[k] = Raises("ContractLogicError")

(* The delays of n retries: base_delay * backoff_factor ** attempt. *)
BackoffDelays(n) == [k \in 1..n |-> base_delay * backoff_factor ^ (k - 1)]

(* The cause call_view_function reports for an exception. *)
CauseOf(exception) ==
    CASE exception = "ContractLogicError" -> "ContractLogic"
      [] exception = "Web3Exception" -> "Web3"
      [] OTHER -> "Unknown"

(* C24: a function whose call reverts every time is called                 *)
(* max_retries + 1 times, with every backoff delay slept, before its task  *)
(* ends, and its error dictionary names the contract logic error; the      *)
(* cause an error dictionary names is the cause of the exception of the    *)
(* last attempt, whatever the earlier attempts raised.                     *)
RevertRetriedInFull ==
    \A i \in 1..Len(tasks) :
        /\ (AlwaysReverts(i) /\ rpcLog[i].calls < max_retries + 1) =>
                tasks[i].pc = "sleeping"
        /\ (AlwaysReverts(i) /\ tasks[i].pc = "done") =>
                /\ rpcLog[i].calls = max_retries + 1
                /\ rpcLog[i].slept = BackoffDelays(max_retries)
                /\ ~IsException(tasks[i].outcome) =>
                        tasks[i].outcome = ErrorDict(tasks[i].name, "ContractLogic")
        /\ (/\ tasks[i].pc = "done"
            /\ ~IsException(tasks[i].outcome)
            /\ tasks[i].outcome.status = "error"
            /\ rpcLog[i].calls >= 1) =>
                tasks[i].outcome.error = CauseOf(rpcLog[i].last.exc)

(* A function reverted at every attempt and its task has ended with the    *)
(* contract logic error, after the whole budget.                           *)
RevertRetriedInFullWitness ==
    \E i \in 1..Len(tasks) :
        /\ AlwaysReverts(i)
        /\ tasks[i].pc = "done"
        /\ tasks[i].outcome = ErrorDict(tasks[i].name, "ContractLogic")
        /\ rpcLog[i].calls = max_retries + 1
        /\ Len(rpcLog[i].slept) = max_retries

-----------------------------------------------------------------------------
(* SpecFlight: the batch of SpecBatch with the RPC call of a task in two   *)
(* steps, its start and its end, and the event loop between them.  running *)
(* is the position of the task the event loop is running, 0 when it is     *)
(* free to run another.  A task whose call has started is at "first_call"  *)
(* or, after a backoff sleep, at "retry_call".                             *)

(* A call_function defined with async def. *)
call_function_async == [coroutine |-> TRUE]

(* web3_client.py lines 128-129: call_function is defined with def. *)
call_function == [coroutine |-> FALSE]

(* utils.py lines 183-186: a coroutine function is awaited, which lets the *)
(* event loop run other tasks until it ends; any other function is called  *)
(* and the event loop waits for it.                                        *)
iscoroutinefunction(func) == func.coroutine

InFlight == {i \in 1..Len(tasks) : tasks[i].pc \in {"first_call", "retry_call"}}

(* The event loop runs task i from its start or from the end of its sleep  *)
(* to the call of func (lines 118-129 and 181-186).                        *)
FlightBegin(i) ==
    /\ bpc = "awaiting"
    /\ running = 0
    /\ tasks[i].pc \in {"new", "sleeping"}
    /\ tasks[i].pc = "new" => \A j \in 1..(i - 1) : tasks[j].pc # "new"
    /\ IF ~CallsRpc(tasks[i], contract)
       THEN /\ tasks' = [tasks EXCEPT ![i] =
                            call_view_function(@, contract, Raises(None), FALSE)]
            /\ doneOrder' = Append(doneOrder, i)
            /\ UNCHANGED <<rpcLog, running>>
       ELSE /\ tasks' = [tasks EXCEPT ![i].pc =
                            IF @ = "new" THEN "first_call" ELSE "retry_call"]
            /\ rpcLog' = [rpcLog EXCEPT ![i].calls = @ + 1]
            /\ running' = IF iscoroutinefunction(call_function) THEN 0 ELSE i
            /\ UNCHANGED doneOrder
    /\ UNCHANGED <<callVars, retryVars, rateVars, initialized, connection_verified,
                   reqs, verifyCalls, service, function_names, contract, bpc,
                   batchResult>>

(* The call of task i returns or raises, and the task goes on to its next  *)
(* sleep or to its end (lines 130-159 and 187-196).                        *)
FlightEnd(i) ==
    /\ bpc = "awaiting"
    /\ i \in InFlight
    /\ running \in {0, i}
    /\ \E out \in RpcOutcomes(tasks[i].name), handlerRaises \in BOOLEAN :
        LET called == [tasks[i] EXCEPT !.pc =
                            IF @ = "first_call" THEN "new" ELSE "sleeping"]
            t == call_view_function(called, contract, out, handlerRaises)
        IN /\ tasks' = [tasks EXCEPT ![i] = t]
           /\ rpcLog' = [rpcLog EXCEPT ![i] =
                            [calls |-> @.calls, last |-> out,
                             outs |-> Append(@.outs, out),
                             slept |-> IF t.pc = "sleeping" THEN t.retry.slept
                                       ELSE @.slept]]
           /\ doneOrder' =
                IF t.pc = "done" THEN Append(doneOrder, i) ELSE doneOrder
    /\ running' = 0
    /\ UNCHANGED <<callVars, retryVars, rateVars, initialized, connection_verified,
                   reqs, verifyCalls, service, function_names, contract, bpc,
                   batchResult>>

NextFlight ==
    \/ BatchGather
    \/ \E i \in 1..Len(tasks) : FlightBegin(i)
    \/ \E i \in 1..Len(tasks) : FlightEnd(i)
    \/ BatchReturn

SpecFlight == InitBatch /\ [][NextFlight]_vars

(* No call made so far has raised. *)
NoCallFailed ==
    \A i \in 1..Len(rpcLog) :
        \A k \in 1..Len(rpcLog[i].outs) : rpcLog[i].outs[k].ok

(* C25: at most one RPC call of the batch is in flight at any moment, and  *)
(* while it is, the event loop runs no other task: every other task is     *)
(* new, ended, or suspended in a backoff sleep; as long as no call has     *)
(* failed, a task has started only when the tasks before it have ended,    *)
(* and the tasks have ended in the order of the input.                     *)
OneCallAtATime ==
    /\ Cardinality(InFlight) <= 1
    /\ \A i \in InFlight : running = i
    /\ \A i \in 1..Len(tasks) :
            running \notin {0, i} => tasks[i].pc \in {"new", "sleeping", "done"}
    /\ NoCallFailed =>
        /\ \A i, j \in 1..Len(tasks) :
                (i < j /\ tasks[j].pc # "new") => tasks[i].pc = "done"
        /\ doneOrder = [k \in 1..Len(doneOrder) |-> k]

(* A call is in flight while another task is in a backoff sleep. *)
OneCallAtATimeWitness ==
    \E i, j \in 1..Len(tasks) :
        /\ i \in InFlight
        /\ tasks[j].pc = "sleeping"

(* Two calls were made, none failed, and both tasks have ended. *)
CallsInInputOrder ==
    /\ bpc = "done"
    /\ NoCallFailed
    /\ Len(tasks) = 2
    /\ \A i \in 1..2 : rpcLog[i].calls = 1

-----------------------------------------------------------------------------
(* etherscan_client.EtherscanClient._make_request and its Throttler        *)
(* (asyncio_throttle, constructed at line 22 with period = 1).  Time is    *)
(* counted in ticks, TicksPerSecond to the second.                         *)

period == 1

HttpExceptions == {"ConnectionError", "HTTPError"}

HttpOutcomes == {Returns("response")} \cup {Raises(e) : e \in HttpExceptions}

RECURSIVE flush(_, _)
(* Throttler.flush: the slots older than the period leave the log. *)
flush(logs, t) ==
    IF logs # <<>> /\ t - Head(logs) > period * TicksPerSecond
    THEN flush(Tail(logs), t)
    ELSE logs

(* Throttler.acquire finds a free slot at time t. *)
SlotFree(logs, limit, t) == Len(flush(logs, t)) < limit

(* A running _make_request:                                                *)
(*   pc       "new" not yet run | "acquiring" polling the throttler |      *)
(*            "sleeping" in a backoff sleep | "done"                       *)
(*   retry    the frame of its retry_with_backoff                          *)
(*   wake     the time its sleep ends                                      *)
(*   acquired how many slots the throttler gave it                         *)
NewCaller ==
    [pc |-> "new", retry |-> RetryFrame, wake |-> 0, acquired |-> 0]

(* The end of one attempt of make_sync_request inside retry_with_backoff. *)
AfterAttempt(c, r, t) ==
    IF r.pc = "sleeping"
    THEN [c EXCEPT !.pc = "sleeping", !.retry = r,
                   !.wake = t + r.slept[Len(r.slept)] * TicksPerSecond]
    ELSE [c EXCEPT !.pc = "done", !.retry = r]

(* One uninterrupted run of _make_request at time t, lines 34-53, from its *)
(* start, from a poll of the throttler or from the end of a backoff sleep, *)
(* to its next await or its end.  `async with self.throttler` is entered   *)
(* once, before retry_with_backoff is called; a retry does not pass it     *)
(* again.  requests.get is synchronous.  The result is the caller, the     *)
(* throttler's log and whether a GET was sent.                             *)
make_request(c, logs, limit, t, out) ==
    IF c.pc = "sleeping"
    THEN [caller |-> AfterAttempt(c,
                        retry_with_backoff(retry_resume(c.retry), max_retries, out), t),
          logs |-> logs, sent |-> TRUE]
    ELSE IF SlotFree(logs, limit, t)
    THEN [caller |-> AfterAttempt([c EXCEPT !.acquired = @ + 1],
                        retry_with_backoff(c.retry, max_retries, out), t),
          logs |-> Append(flush(logs, t), t), sent |-> TRUE]
    ELSE [caller |-> [c EXCEPT !.pc = "acquiring"],
          logs |-> flush(logs, t), sent |-> FALSE]

-----------------------------------------------------------------------------
(* SpecRate: NumCallers concurrent calls of _make_request on one client.   *)

InitRate ==
    /\ RetryIdle
    /\ BatchIdle
    /\ now = 0
    /\ rate_limit \in 1..MaxRate
    /\ task_logs = <<>>
    /\ callers = [c \in 1..NumCallers |-> NewCaller]
    /\ getTimes = <<>>
    /\ InspectIdle
    /\ CallIdle

(* The event loop runs caller c: a new call, a poll of the throttler, or   *)
(* a sleep that is over.                                                   *)
CallerRun(c) ==
    /\ callers[c].pc \in {"new", "acquiring", "sleeping"}
    /\ callers[c].pc = "sleeping" => now >= callers[c].wake
    /\ \E out \in HttpOutcomes :
        LET m == make_request(callers[c], task_logs, rate_limit, now, out)
        IN /\ callers' = [callers EXCEPT ![c] = m.caller]
           /\ task_logs' = m.logs
           /\ getTimes' = IF m.sent THEN Append(getTimes, now) ELSE getTimes
    /\ UNCHANGED <<callVars, retryVars, batchVars, inspectVars, now, rate_limit>>

(* Time passes; getTimes keeps the GETs less than a second old. *)
Tick ==
    /\ now < MaxTime
    /\ now' = now + 1
    /\ getTimes' = SelectSeq(getTimes, LAMBDA g : now + 1 - g < TicksPerSecond)
    /\ UNCHANGED <<callVars, retryVars, batchVars, inspectVars, rate_limit, task_logs, callers>>

NextRate ==
    \/ \E c \in 1..NumCallers : CallerRun(c)
    \/ Tick

SpecRate == InitRate /\ [][NextRate]_vars

(* C3. A rate limiter slot is acquired before every attempt of the HTTP    *)
(* GET, each retry included: no call has sent more GETs than it has        *)
(* acquired slots.                                                         *)
SlotBeforeEveryAttempt ==
    \A c \in 1..NumCallers : callers[c].retry.calls <= callers[c].acquired

(* C4. Rate ceiling: with the limiter configured for N requests per        *)
(* second, no window of one second holds more than N HTTP GET attempts.    *)
RateCeiling ==
    Len(getTimes) <= rate_limit

-----------------------------------------------------------------------------
(* utils.py: addresses.  A string is a sequence of one-character strings.  *)

AddressHexDigits == 40

HexDigits ==
    <<"0", "1", "2", "3", "4", "5", "6", "7", "8", "9",
      "a", "b", "c", "d", "e", "f">>

UpperOf(ch) ==
    CASE ch = "a" -> "A" [] ch = "b" -> "B" [] ch = "c" -> "C"
      [] ch = "d" -> "D" [] ch = "e" -> "E" [] ch = "f" -> "F"
      [] OTHER -> ch

LowerOf(ch) ==
    CASE ch = "A" -> "a" [] ch = "B" -> "b" [] ch = "C" -> "c"
      [] ch = "D" -> "d" [] ch = "E" -> "e" [] ch = "F" -> "f"
      [] OTHER -> ch

(* The character class [a-fA-F0-9]. *)
IsHexDigit(ch) == \E i \in 1..16 : ch = HexDigits[i] \/ ch = UpperOf(HexDigits[i])

HexValue(ch) == CHOOSE i \in 0..15 : LowerOf(ch) = HexDigits[i + 1]

(* re.match(r'^0x[a-fA-F0-9]{40}$', address), line 26.  In Python `$`     *)
(* matches at the end of the string and also just before a newline that    *)
(* ends the string.                                                        *)
MatchesAddressPattern(s) ==
    /\ Len(s) >= AddressHexDigits + 2
    /\ s[1] = "0"
    /\ s[2] = "x"
    /\ \A i \in 3..(AddressHexDigits + 2) : IsHexDigit(s[i])
    /\ \/ Len(s) = AddressHexDigits + 2
       \/ Len(s) = AddressHexDigits + 3 /\ s[Len(s)] = "\n"

(* A validation that accepts any string starting with 0x. *)
accepts_any_0x(address) ==
    Len(address) >= 2 /\ address[1] = "0" /\ address[2] = "x"

(* A validation that only rejects the empty string. *)
accepts_any_text(address) == address # <<>>

(* utils.is_valid_ethereum_address, lines 12-29. *)
is_valid_ethereum_address(address) ==
    IF address = <<>> THEN FALSE
    ELSE IF ~MatchesAddressPattern(address) THEN FALSE
    ELSE TRUE

(* What the claims call "0x followed by 40 hex digits". *)
IsHexAddress(s) ==
    /\ Len(s) = AddressHexDigits + 2
    /\ s[1] = "0"
    /\ s[2] \in {"x", "X"}
    /\ \A i \in 3..Len(s) : IsHexDigit(s[i])

(* A stand-in for nibble i of the Keccak-256 hash of the lower-case hex    *)
(* body, which EIP-55 reads: a fixed function of the lower-case body.      *)
HashNibble(lower, i) == (HexValue(lower[i + 2]) * 7 + i * 3) % 16

(* Web3.to_checksum_address: the EIP-55 casing of a hex address; it raises *)
(* on anything else, and utils.to_checksum_address (lines 48-61) then      *)
(* returns its argument unchanged.                                         *)
to_checksum_address(address) ==
    IF ~IsHexAddress(address) THEN address
    ELSE LET lower == [i \in 1..Len(address) |-> LowerOf(address[i])]
         IN [i \in 1..Len(address) |->
                IF i <= 2 THEN lower[i]
                ELSE IF HashNibble(lower, i - 2) > 7 THEN UpperOf(lower[i])
                ELSE lower[i]]

(* The address strings the model feeds to the public operations. *)
LowerAddress ==
    <<"0", "x">> \o [i \in 1..AddressHexDigits |-> HexDigits[((i * 7) % 16) + 1]]

NotAnAddress ==
    <<"n", "o", "t", "-", "a", "n", "-", "a", "d", "d", "r", "e", "s", "s">>

NonHexAddress == [LowerAddress EXCEPT ![Len(LowerAddress)] = "g"]

NewlineAddress == Append(LowerAddress, "\n")

AddressInputs ==
    {LowerAddress, NotAnAddress, NonHexAddress, NewlineAddress, <<>>}

-----------------------------------------------------------------------------
(* utils.py and contract_analyzer.py: the ABI and its functions.  A        *)
(* dictionary is a function from its keys; item.get(key, default) is Get.  *)

Get(item, key, default) == IF key \in DOMAIN item THEN item[key] ELSE default

AbiFunction(name, mutability, inputs, outputs) ==
    [type |-> "function", name |-> name, stateMutability |-> mutability,
     inputs |-> inputs, outputs |-> outputs]

AbiEvent(name) == [type |-> "event", name |-> name, inputs |-> <<"address">>]

(* A filter that forgets the test on the inputs. *)
is_view_function_any_inputs(item) ==
    /\ Get(item, "type", None) = "function"
    /\ Get(item, "stateMutability", None) \in {"view", "pure"}

(* The condition of lines 118-122. *)
is_view_function(item) ==
    /\ Get(item, "type", None) = "function"
    /\ Get(item, "stateMutability", None) \in {"view", "pure"}
    /\ Len(Get(item, "inputs", <<>>)) = 0

(* utils.extract_view_functions, lines 105-125. *)
extract_view_functions(abi) == SelectSeq(abi, is_view_function)

(* An item of a decoded ABI that is no dictionary: a string. *)
NotAnEntry == [json |-> "string"]

(* item.get of line 119 is called on every item: the exception of the loop *)
(* of extract_view_functions, if it raises one.                            *)
extract_view_functions_error(abi) ==
    IF \E i \in 1..Len(abi) : abi[i] = NotAnEntry
    THEN "AttributeError"
    ELSE None

(* len([f for f in abi if f.get("type") == "function"]), line 103. *)
total_functions(abi) ==
    Len(SelectSeq(abi, LAMBDA f : Get(f, "type", None) = "function"))

(* ContractAnalyzer._get_output_type, lines 181-198. *)
get_output_type(func_info) ==
    LET outputs == Get(func_info, "outputs", <<>>)
    IN IF Len(outputs) = 0 THEN "void"
       ELSE IF Len(outputs) = 1 THEN outputs[1]
       ELSE "tuple"

(* The ABIs the metadata service may hold for the inspected address. *)
TokenAbi ==
    << AbiFunction("name", "view", <<>>, <<"string">>),
       AbiFunction("balanceOf", "view", <<"address">>, <<"uint256">>),
       AbiFunction("transfer", "nonpayable", <<"address", "uint256">>, <<"bool">>),
       AbiEvent("Transfer"),
       AbiFunction("totalSupply", "pure", <<>>, <<"uint256">>) >>

WalletAbi ==
    << AbiFunction("withdraw", "nonpayable", <<>>, <<>>),
       AbiFunction("balanceOf", "view", <<"address">>, <<"uint256">>),
       AbiEvent("Deposit") >>

(* One invocable function. *)
NameAbi ==
    << AbiFunction("transfer", "nonpayable", <<"address", "uint256">>, <<"bool">>),
       AbiFunction("name", "view", <<>>, <<"string">>) >>

(* An ABI with an item that is no function description. *)
MalformedAbi == <<AbiFunction("name", "view", <<>>, <<"string">>), NotAnEntry>>

Abis == {TokenAbi, NameAbi, WalletAbi, <<>>, MalformedAbi}

-----------------------------------------------------------------------------
(* contract_analyzer.py: classification of a successful outcome.           *)

Limb == 1000000

(* a > b for two integers in limbs. *)
IntGreater(a, b) ==
    \E i \in 1..4 : a[i] > b[i] /\ \A j \in 1..(i - 1) : a[j] = b[j]

IntAtLeast(a, b) == a = b \/ IntGreater(a, b)

Ten12 == <<0, 1, 0, 0>>

Ten15 == <<0, 1000, 0, 0>>

Ten18 == <<1, 0, 0, 0>>

(* x + 1 for a number of two limbs <<whole, millionths>>. *)
NextMillionth(x) ==
    IF x[2] + 1 = Limb THEN <<x[1] + 1, 0>> ELSE <<x[1], x[2] + 1>>

(* Rounding to the nearest millionth, ties to even: q is the quotient      *)
(* <<whole, millionths>>, the remainder is hi*10^6 + lo and one half of    *)
(* the divisor is halfHi*10^6.  Python divides in floating point and       *)
(* formats the nearest double; the model rounds the exact quotient.        *)
RoundMillionths(q, hi, lo, halfHi) ==
    IF \/ hi > halfHi
       \/ hi = halfHi /\ lo > 0
       \/ hi = halfHi /\ lo = 0 /\ q[2] % 2 = 1
    THEN NextMillionth(q)
    ELSE q

(* ContractAnalyzer._format_large_number, lines 200-217: the number with   *)
(* six decimals and its unit, or str(value).                               *)
format_large_number(value) ==
    IF IntAtLeast(value, Ten18)
    THEN [unit |-> "Ether",
          number |-> RoundMillionths(<<value[1], value[2]>>,
                                     value[3], value[4], Limb \div 2)]
    ELSE IF IntAtLeast(value, Ten15)
    THEN [unit |-> "milli-Ether",
          number |-> RoundMillionths(
              <<value[1] * 1000 + value[2] \div 1000,
                (value[2] % 1000) * 1000 + value[3] \div 1000>>,
              value[3] % 1000, value[4], 500)]
    ELSE IF IntAtLeast(value, Ten12)
    THEN [unit |-> "micro-Ether",
          number |-> RoundMillionths(<<value[2], value[3]>>,
                                     value[4], 0, Limb \div 2)]
    ELSE [unit |-> "", number |-> value]

(* output_type.startswith("uint") *)
StartsWithUint(output_type) ==
    output_type \in {"uint", "uint8", "uint128", "uint256"}

(* str(x) of an address value is the string itself. *)
StrOf(value) == value.v

(* A pass of the loop that attaches nothing to an entry. *)
classify_basic_only(result, func_info) ==
    IF result.status = "success"
    THEN [function_name |-> result.function_name,
          result |-> result.result,
          type |-> get_output_type(func_info),
          status |-> "success"]
    ELSE [function_name |-> result.function_name,
          error |-> result.error,
          status |-> "failed"]

(* Lines 131-157, one pass of the loop: the entry appended to              *)
(* successful_calls or to failed_calls for call result number i.           *)
classify(result, func_info) ==
    IF result.status = "success"
    THEN LET output_type == get_output_type(func_info)
             basic == [function_name |-> result.function_name,
                       result |-> result.result,
                       type |-> output_type,
                       status |-> "success"]
         IN IF StartsWithUint(output_type) /\ result.result.kind = "int"
            THEN IF IntGreater(result.result.v, Ten15)
                 THEN [k \in DOMAIN basic \cup {"formatted_value"} |->
                        IF k = "formatted_value"
                        THEN format_large_number(result.result.v)
                        ELSE basic[k]]
                 ELSE basic
            ELSE IF output_type = "address"
            THEN [k \in DOMAIN basic \cup {"checksum_address"} |->
                    IF k = "checksum_address"
                    THEN to_checksum_address(StrOf(result.result))
                    ELSE basic[k]]
            ELSE basic
    ELSE [function_name |-> result.function_name,
          error |-> result.error,
          status |-> "failed"]

RECURSIVE classify_all_prepending(_, _, _)
(* A loop that puts each entry at the head of its list. *)
classify_all_prepending(call_results, view_functions, i) ==
    IF i > Len(call_results) THEN [successful |-> <<>>, failed |-> <<>>]
    ELSE LET rest == classify_all_prepending(call_results, view_functions, i + 1)
             entry == classify(call_results[i], view_functions[i])
         IN IF call_results[i].status = "success"
            THEN [rest EXCEPT !.successful = @ \o <<entry>>]
            ELSE [rest EXCEPT !.failed = @ \o <<entry>>]

RECURSIVE classify_all(_, _, _)
(* The loop of lines 131-157 from index i on: <<successful, failed>>. *)
classify_all(call_results, view_functions, i) ==
    IF i > Len(call_results) THEN [successful |-> <<>>, failed |-> <<>>]
    ELSE LET rest == classify_all(call_results, view_functions, i + 1)
             entry == classify(call_results[i], view_functions[i])
         IN IF call_results[i].status = "success"
            THEN [rest EXCEPT !.successful = <<entry>> \o @]
            ELSE [rest EXCEPT !.failed = <<entry>> \o @]

-----------------------------------------------------------------------------
(* etherscan_client.py: what the metadata service answers, and what        *)
(* MetadataClient makes of it.  Python's None or a value is Absent or      *)
(* Some(v).                                                                *)

Absent == [some |-> FALSE]

Some(v) == [some |-> TRUE, v |-> v]

(* Texts: a JSON text that encodes a value, a text that is no JSON, the    *)
(* empty string.  Decoded JSON values are lists or dictionaries.           *)
JsonText(value) == [text |-> "json", value |-> value]

NotJson == [text |-> "not json"]

EmptyText == [text |-> ""]

JsonList(items) == [json |-> "list", items |-> items]

JsonDict == [json |-> "dict"]

JsonNull == [json |-> "null"]

IsText(x) == "text" \in DOMAIN x

(* utils.safe_json_loads, lines 89-102: the decoded value, or None when    *)
(* json.loads raises (a text that is no JSON, or data that is no string);  *)
(* the decoded value of "null" is None as well.                            *)
safe_json_loads(data) ==
    IF IsText(data) /\ data.text = "json" /\ data.value # JsonNull
    THEN Some(data.value)
    ELSE Absent

Response(status, result) == [status |-> status, result |-> result]

(* The answers to action=getabi when the service holds `abi` for the       *)
(* address: an error status, an empty or malformed result, or the ABI as   *)
(* a JSON text.                                                            *)
AbiResponses(abi) ==
    {Response("0", NotJson), Response("1", EmptyText), Response("1", NotJson),
     Response("1", JsonText(JsonDict)), Response("1", JsonText(JsonList(abi)))}

GetAbiOutcomes(abi) ==
    {Returns(a) : a \in AbiResponses(abi)} \cup {Raises(e) : e \in HttpExceptions}

(* `not x` of a value of a decoded body. *)
Falsy(x) == x \in {EmptyText, JsonList(<<>>), JsonNull}

(* A decoded body that is no dictionary has no method get. *)
IsDictBody(body) == "json" \notin DOMAIN body

(* EtherscanClient.get_contract_abi, the body of its try, lines 65-89,     *)
(* from what _make_request did (r, the finished frame of its               *)
(* retry_with_backoff): what it returns, or the exception it raises.       *)
get_contract_abi_try(r) ==
    IF r.pc = "raised" THEN Raises(r.last_exception)
    ELSE IF ~IsDictBody(r.result) THEN Raises("AttributeError")
    ELSE IF Get(r.result, "status", None) # "1" THEN Returns(Absent)
    ELSE LET abi_string == Get(r.result, "result", EmptyText)
         IN IF Falsy(abi_string) THEN Returns(Absent)
            ELSE LET abi == safe_json_loads(abi_string)
                 IN IF ~abi.some \/ abi.v.json # "list" THEN Returns(Absent)
                    ELSE Returns(Some(abi.v.items))

(* A get_contract_abi without the handler of lines 91-93. *)
get_contract_abi_unhandled(r) ==
    LET done == get_contract_abi_try(r)
    IN IF done.ok THEN done.val ELSE done

(* EtherscanClient.get_contract_abi, lines 55-93: `except Exception`       *)
(* returns None.                                                           *)
get_contract_abi(r) ==
    LET done == get_contract_abi_try(r)
    IN IF done.ok THEN done.val ELSE Absent

(* Contract names, as strings of characters. *)
TokenName == <<"T", "o", "k", "e", "n">>

BlankName == <<" ", " ">>

RECURSIVE lstrip(_)
lstrip(s) == IF s # <<>> /\ Head(s) = " " THEN lstrip(Tail(s)) ELSE s

RECURSIVE rstrip(_)
rstrip(s) ==
    IF s # <<>> /\ s[Len(s)] = " " THEN rstrip(SubSeq(s, 1, Len(s) - 1)) ELSE s

(* str.strip() *)
strip(s) == rstrip(lstrip(s))

SourceInfo(name) == [ContractName |-> name, SourceCode |-> <<"c">>, ABI |-> <<"a">>]

(* The answers to action=getsourcecode: result is a list of dictionaries. *)
SourceResponses ==
    {Response("0", JsonList(<<>>)), Response("1", JsonList(<<>>)),
     Response("1", JsonDict),
     Response("1", JsonList(<<SourceInfo(TokenName)>>)),
     Response("1", JsonList(<<SourceInfo(BlankName)>>)),
     Response("1", JsonList(<<[SourceCode |-> <<>>]>>))}

GetSourceOutcomes ==
    {Returns(a) : a \in SourceResponses} \cup {Raises(e) : e \in HttpExceptions}

(* EtherscanClient.get_contract_source_code, lines 105-126. *)
get_contract_source_code(r) ==
    IF r.pc = "raised" THEN Absent
    ELSE IF r.result.status # "1" THEN Absent
    ELSE LET result == r.result.result
         IN IF result.json # "list" THEN Absent
            ELSE IF result.items = <<>> THEN Absent
            ELSE Some(result.items[1])

(* EtherscanClient.is_contract_verified, lines 138-150. *)
is_contract_verified(r) ==
    LET source_info == get_contract_source_code(r)
    IN IF ~source_info.some THEN FALSE
       ELSE LET has_source == strip(Get(source_info.v, "SourceCode", <<>>)) # <<>>
                has_abi == strip(Get(source_info.v, "ABI", <<>>)) # <<>>
            IN has_source \/ has_abi

(* EtherscanClient.get_contract_name, lines 162-170. *)
get_contract_name(r) ==
    LET source_info == get_contract_source_code(r)
    IN IF ~source_info.some THEN Absent
       ELSE LET name == strip(Get(source_info.v, "ContractName", <<>>))
            IN IF name = <<>> THEN Absent ELSE Some(name)

-----------------------------------------------------------------------------
(* contract_analyzer.ContractAnalyzer.analyze_contract: the reports.       *)
(* An error text is its reason and the addresses written into it.          *)

Timestamp == "datetime.now().isoformat()"

ErrorText(reason, mentions) == [reason |-> reason, mentions |-> mentions]

NoReport == [status |-> "none"]

(* Lines 59-63 *)
InitFailedReport ==
    [status |-> "error",
     error |-> ErrorText("initialization failed", {}),
     timestamp |-> Timestamp]

(* Lines 67-71 *)
InvalidAddressReport(contract_address) ==
    [status |-> "error",
     error |-> ErrorText("invalid address format", {contract_address}),
     timestamp |-> Timestamp]

(* Lines 79-83 *)
NotContractReport(checksum_address) ==
    [status |-> "error",
     error |-> ErrorText("not a contract address", {checksum_address}),
     timestamp |-> Timestamp]

(* Lines 89-94 *)
AbiUnavailableReport(checksum_address) ==
    [status |-> "error",
     error |-> ErrorText("ABI unavailable", {}),
     contract_address |-> checksum_address,
     timestamp |-> Timestamp]

(* Lines 99-105 *)
NoViewFunctionsReport(checksum_address, abi) ==
    [status |-> "warning",
     message |-> "no zero-argument view functions found",
     contract_address |-> checksum_address,
     total_functions |-> total_functions(abi),
     timestamp |-> Timestamp]

(* Lines 112-117 *)
InstanceFailedReport(checksum_address) ==
    [status |-> "error",
     error |-> ErrorText("instance creation failed", {}),
     contract_address |-> checksum_address,
     timestamp |-> Timestamp]

(* Lines 163-175 *)
FinalReport(checksum_address, contract_name, view_functions, calls) ==
    [status |-> "success",
     contract_address |-> checksum_address,
     contract_name |-> contract_name,
     analysis_summary |->
        [total_view_functions |-> Len(view_functions),
         successful_calls |-> Len(calls.successful),
         failed_calls |-> Len(calls.failed)],
     successful_functions |-> calls.successful,
     failed_functions |->
        IF calls.failed # <<>> THEN Some(calls.failed) ELSE Absent,
     timestamp |-> Timestamp]

-----------------------------------------------------------------------------
(* What the chain endpoint does. *)

(* w3.is_connected(): true, false, or an exception. *)
ProbeOutcomes == {Returns(TRUE), Returns(FALSE), Raises("ConnectionError")}

EmptyCode == <<>>

SomeCode == <<96, 128>>

(* w3.eth.get_code(address): the bytecode, or an exception; web3 rejects   *)
(* an address that is not a checksummed hex address before any request.    *)
GetCodeOutcomes(address) ==
    IF IsHexAddress(address) /\ to_checksum_address(address) = address
    THEN {Returns(EmptyCode), Returns(SomeCode), Raises("Web3Exception")}
    ELSE {Raises("InvalidAddress")}

(* get_code, web3_client.py lines 61-63: len(code) > 0. *)
get_code(out) == IF out.ok THEN Returns(Len(out.val) > 0) ELSE out

(* An is_contract_address that takes every answer for a contract. *)
is_contract_address_any_answer(r) == TRUE

(* Web3Client.is_contract_address, lines 58-72, from the finished frame of *)
(* its retry_with_backoff: what get_code returned, False when it raised.   *)
is_contract_address(r) ==
    IF r.pc = "raised" THEN FALSE ELSE r.result

(* The names contract.functions resolves: the functions of the ABI. *)
MembersOf(abi) ==
    {Get(abi[i], "name", None) : i \in {j \in 1..Len(abi) : Get(abi[j], "type", None) = "function"}}

(* w3.eth.contract(address=..., abi=...): a handle, or an exception. *)
ContractOutcomes(abi) == {Returns(MembersOf(abi)), Raises("ValueError")}

verify_max_retries == 3

-----------------------------------------------------------------------------
(* Spec and SpecOverlap: requests call analyze_contract on one             *)
(* ContractAnalyzer, in one event loop.  A coroutine runs until it awaits  *)
(* something that is not ready (a backoff sleep, a poll of the throttler,  *)
(* the tasks of gather); only then does the loop run another one.          *)
(* `running` is the request that holds the loop.                           *)

(* The frame of one analyze_contract(contract_address):                    *)
(*   pc     where it is: a step it is about to take while it holds the     *)
(*          loop, or the await it is suspended in                          *)
(*   retry  the frame of the retry_with_backoff it is in                   *)
(*   did    the calls it has made to the outside                           *)
(*   code   what the last w3.eth.get_code did, if one was made             *)
(*   entry  the function the caller called: analyze_contract, or the tool  *)
(*          contract_info of main.py, which calls analyze_contract         *)
(* the other fields are the locals of the same name.                       *)
NewRequest(contract_address) ==
    [contract_address |-> contract_address,
     entry |-> "analyze_contract",
     pc |-> "start",
     retry |-> RetryFrame,
     did |-> {},
     checksum_address |-> <<>>,
     code |-> Absent,
     is_contract |-> FALSE,
     abi |-> Absent,
     view_functions |-> <<>>,
     contract |-> Absent,
     tasks |-> <<>>,
     report |-> NoReport]

Quiet ==
    /\ CallIdle
    /\ RetryIdle
    /\ BatchIdle
    /\ RateIdle

(* One request to an analyzer that is new, or that earlier requests have   *)
(* initialized.                                                            *)
Init ==
    /\ Quiet
    /\ initialized \in BOOLEAN
    /\ connection_verified = initialized
    /\ reqs \in [{1} -> {[NewRequest(a) EXCEPT !.entry = e] :
                            a \in AddressInputs,
                            e \in {"analyze_contract", "contract_info"}}]
    /\ running = 0
    /\ verifyCalls = 0
    /\ service \in Abis

(* Two requests to a new analyzer, which may overlap. *)
InitOverlap ==
    /\ Quiet
    /\ initialized = FALSE
    /\ connection_verified = FALSE
    /\ reqs \in [{1, 2} -> {NewRequest(a) : a \in AddressInputs}]
    /\ running = 0
    /\ verifyCalls = 0
    /\ service \in {NameAbi, WalletAbi}

(* Request r is about to take the step `step` while holding the loop, or   *)
(* is suspended in `suspended` while the loop is free.                     *)
At(r, step, suspended) ==
    <<reqs[r].pc, running>> \in {<<step, r>>, <<suspended, 0>>}

(* The frame with which a retry_with_backoff goes on at pc. *)
FrameAt(q, suspended) ==
    IF q.pc = suspended THEN retry_resume(q.retry) ELSE q.retry

Return(q, report) == [q EXCEPT !.pc = "done", !.report = report]

(* The request ends with an exception raised to its caller. *)
Raise(q, exception) ==
    [q EXCEPT !.pc = "raised", !.report = [exception |-> exception]]

(* main.contract_info, lines 36-41: the exception it raises before it      *)
(* calls analyze_contract, if any.                                         *)
contract_info_check(contract_address) ==
    IF contract_address = <<>> THEN "ValueError"
    ELSE IF \/ Len(contract_address) < 2
            \/ contract_address[1] # "0"
            \/ contract_address[2] # "x"
            \/ Len(contract_address) # AddressHexDigits + 2
    THEN "ValueError"
    ELSE None

(* main.contract_info, lines 57-66. *)
ErrorResponse(contract_address) ==
    [status |-> "error",
     error |-> ErrorText("analysis failed", {}),
     contract_address |-> contract_address,
     tool |-> "contract_info"]

(* analyze_contract raises: contract_info catches what it raises (lines    *)
(* 43-66), another caller gets the exception.                              *)
Throw(q, exception) ==
    IF q.entry = "contract_info"
    THEN Return(q, ErrorResponse(q.contract_address))
    ELSE Raise(q, exception)

(* The frame of a retry_with_backoff that has ended is gone. *)
Keep(f) == IF f.pc = "sleeping" THEN f ELSE RetryFrame

(* The step leaves request r as q; r keeps the loop unless it is           *)
(* suspended or has returned.                                              *)
Continue(r, q, suspends) ==
    /\ reqs' = [reqs EXCEPT ![r] = q]
    /\ running' = IF suspends \/ q.pc \in {"done", "raised"} THEN 0 ELSE r

(* The request begins: the checks of contract_info when it is the entry,  *)
(* then analyze_contract is called: initialize(), lines 34-38, up to the   *)
(* call of verify_connection.                                              *)
Start(r) ==
    /\ running = 0
    /\ reqs[r].pc = "start"
    /\ IF /\ reqs[r].entry = "contract_info"
          /\ contract_info_check(reqs[r].contract_address) # None
       THEN /\ Continue(r, Raise(reqs[r],
                                 contract_info_check(reqs[r].contract_address)),
                        FALSE)
            /\ UNCHANGED verifyCalls
       ELSE IF initialized
       THEN /\ Continue(r, [reqs[r] EXCEPT !.pc = "validate"], FALSE)
            /\ UNCHANGED verifyCalls
       ELSE /\ Continue(r, [reqs[r] EXCEPT !.pc = "probe", !.retry = RetryFrame], FALSE)
            /\ verifyCalls' = verifyCalls + 1
    /\ UNCHANGED <<callVars, retryVars, batchVars, rateVars, service, initialized,
                   connection_verified>>

(* One attempt of check_connection in verify_connection (web3_client.py    *)
(* lines 28-46) and, when the retry loop ends, the rest of initialize      *)
(* (lines 39-45) and lines 58-63.                                          *)
Probe(r) ==
    /\ At(r, "probe", "probe_sleep")
    /\ \E out \in ProbeOutcomes :
        LET q == reqs[r]
            f == retry_with_backoff(FrameAt(q, "probe_sleep"), verify_max_retries, out)
            q1 == [q EXCEPT !.retry = Keep(f), !.did = @ \cup {"is_connected"}]
            connection_ok == f.pc = "returned" /\ f.result
        IN /\ connection_verified' =
                IF f.pc = "returned" THEN f.result ELSE connection_verified
           /\ initialized' = IF connection_ok THEN TRUE ELSE initialized
           /\ IF f.pc = "sleeping"
              THEN Continue(r, [q1 EXCEPT !.pc = "probe_sleep"], TRUE)
              ELSE IF connection_ok
              THEN Continue(r, [q1 EXCEPT !.pc = "validate"], FALSE)
              ELSE Continue(r, Return(q1, InitFailedReport), FALSE)
    /\ UNCHANGED <<callVars, retryVars, batchVars, rateVars, service, verifyCalls>>

(* Lines 66-74. *)
Validate(r) ==
    /\ running = r
    /\ reqs[r].pc = "validate"
    /\ LET q == reqs[r]
       IN IF ~is_valid_ethereum_address(q.contract_address)
          THEN Continue(r, Return(q, InvalidAddressReport(q.contract_address)), FALSE)
          ELSE Continue(r, [q EXCEPT !.pc = "get_code", !.retry = RetryFrame,
                                    !.checksum_address =
                                        to_checksum_address(q.contract_address)],
                        FALSE)
    /\ UNCHANGED <<callVars, retryVars, batchVars, rateVars, service, initialized,
                   connection_verified, verifyCalls>>

(* One attempt of get_code in is_contract_address (web3_client.py lines    *)
(* 58-72) and, when the retry loop ends, lines 78-83.                      *)
GetCode(r) ==
    /\ At(r, "get_code", "get_code_sleep")
    /\ \E checksum_address \in {to_checksum_address(reqs[r].checksum_address)} :
       \E out \in GetCodeOutcomes(checksum_address) :
        LET q == reqs[r]
            f == retry_with_backoff(FrameAt(q, "get_code_sleep"), max_retries,
                                    get_code(out))
            q1 == [q EXCEPT !.retry = Keep(f), !.did = @ \cup {"get_code"},
                            !.code = Some(out)]
            is_contract == is_contract_address(f)
        IN IF f.pc = "sleeping"
           THEN Continue(r, [q1 EXCEPT !.pc = "get_code_sleep"], TRUE)
           ELSE IF ~is_contract
           THEN Continue(r, Return(q1, NotContractReport(q.checksum_address)), FALSE)
           ELSE Continue(r, [q1 EXCEPT !.is_contract = TRUE,
                                      !.pc = "getabi_acquire"], FALSE)
    /\ UNCHANGED <<callVars, retryVars, batchVars, rateVars, service, initialized,
                   connection_verified, verifyCalls>>

(* `async with self.throttler` of _make_request (etherscan_client.py line  *)
(* 34), for the getabi request and for the getsourcecode request: the      *)
(* throttler has a free slot or the call polls again later.  Spec has no   *)
(* clock, so both may happen.                                              *)
Acquire(r) ==
    /\ \/ At(r, "getabi_acquire", "getabi_poll")
       \/ At(r, "name_acquire", "name_poll")
    /\ \E free \in BOOLEAN :
        LET q == reqs[r]
            forAbi == q.pc \in {"getabi_acquire", "getabi_poll"}
        IN IF free
           THEN Continue(r, [q EXCEPT !.pc = IF forAbi THEN "getabi" ELSE "name",
                                      !.retry = RetryFrame], FALSE)
           ELSE Continue(r, [q EXCEPT !.pc = IF forAbi THEN "getabi_poll"
                                             ELSE "name_poll"], TRUE)
    /\ UNCHANGED <<callVars, retryVars, batchVars, rateVars, service, initialized,
                   connection_verified, verifyCalls>>

(* One attempt of make_sync_request for action=getabi and, when the retry  *)
(* loop ends, the rest of get_contract_abi and lines 88-105.               *)
GetAbi(r) ==
    /\ At(r, "getabi", "getabi_sleep")
    /\ \E out \in GetAbiOutcomes(service) :
        LET q == reqs[r]
            f == retry_with_backoff(FrameAt(q, "getabi_sleep"), max_retries, out)
            q1 == [q EXCEPT !.retry = Keep(f), !.did = @ \cup {"getabi"}]
            abi == get_contract_abi(f)
            view_functions == extract_view_functions(abi.v)
        IN IF f.pc = "sleeping"
           THEN Continue(r, [q1 EXCEPT !.pc = "getabi_sleep"], TRUE)
           ELSE IF ~abi.some \/ abi.v = <<>>
           THEN Continue(r, Return([q1 EXCEPT !.abi = abi],
                                   AbiUnavailableReport(q.checksum_address)), FALSE)
           ELSE IF extract_view_functions_error(abi.v) # None
           THEN Continue(r, Throw([q1 EXCEPT !.abi = abi],
                                  extract_view_functions_error(abi.v)), FALSE)
           ELSE IF view_functions = <<>>
           THEN Continue(r, Return([q1 EXCEPT !.abi = abi],
                                   NoViewFunctionsReport(q.checksum_address, abi.v)),
                         FALSE)
           ELSE Continue(r, [q1 EXCEPT !.abi = abi,
                                       !.view_functions = view_functions,
                                       !.pc = "contract",
                                       !.retry = RetryFrame], FALSE)
    /\ UNCHANGED <<callVars, retryVars, batchVars, rateVars, service, initialized,
                   connection_verified, verifyCalls>>

(* One attempt of create_contract in get_contract_instance (web3_client.py *)
(* lines 85-101) and, when the retry loop ends, lines 111-125 up to        *)
(* gather, which makes one task for each name and suspends the request.    *)
Instantiate(r) ==
    /\ At(r, "contract", "contract_sleep")
    /\ \E out \in ContractOutcomes(reqs[r].abi.v) :
        LET q == reqs[r]
            f == retry_with_backoff(FrameAt(q, "contract_sleep"), max_retries, out)
            q1 == [q EXCEPT !.retry = Keep(f), !.did = @ \cup {"contract"}]
            names == [i \in 1..Len(q.view_functions) |-> q.view_functions[i].name]
        IN IF f.pc = "sleeping"
           THEN Continue(r, [q1 EXCEPT !.pc = "contract_sleep"], TRUE)
           ELSE IF f.pc = "raised"
           THEN Continue(r, Return(q1, InstanceFailedReport(q.checksum_address)), FALSE)
           ELSE Continue(r, [q1 EXCEPT !.contract = Some(f.result),
                                       !.tasks = [i \in 1..Len(names) |->
                                                    NewTask(names[i])],
                                       !.pc = "awaiting"], TRUE)
    /\ UNCHANGED <<callVars, retryVars, batchVars, rateVars, service, initialized,
                   connection_verified, verifyCalls>>

(* The event loop runs task i of request r's batch. *)
Invoke(r, i) ==
    /\ running = 0
    /\ reqs[r].pc = "awaiting"
    /\ reqs[r].tasks[i].pc \in {"new", "sleeping"}
    /\ reqs[r].tasks[i].pc = "new" =>
            \A j \in 1..(i - 1) : reqs[r].tasks[j].pc # "new"
    /\ \E out \in RpcOutcomes(reqs[r].tasks[i].name), handlerRaises \in BOOLEAN :
        LET q == reqs[r]
            t == call_view_function(q.tasks[i], q.contract.v, out, handlerRaises)
        IN Continue(r, [q EXCEPT !.tasks[i] = t,
                                 !.did = IF CallsRpc(q.tasks[i], q.contract.v)
                                         THEN @ \cup {"call"} ELSE @], TRUE)
    /\ UNCHANGED <<callVars, retryVars, batchVars, rateVars, service, initialized,
                   connection_verified, verifyCalls>>

(* Every task has ended: batch_call_view_functions returns (web3_client.py *)
(* lines 184-196) and lines 128-160 run up to get_contract_name.           *)
Collect(r) ==
    /\ running = 0
    /\ reqs[r].pc = "awaiting"
    /\ \A i \in 1..Len(reqs[r].tasks) : reqs[r].tasks[i].pc = "done"
    /\ Continue(r, [reqs[r] EXCEPT !.pc = "name_acquire"], FALSE)
    /\ UNCHANGED <<callVars, retryVars, batchVars, rateVars, service, initialized,
                   connection_verified, verifyCalls>>

(* What lines 123-157 compute from the ended tasks. *)
CallResults(q) ==
    batch_call_view_functions(gather(q.tasks, <<>>),
                              [i \in 1..Len(q.view_functions) |->
                                    q.view_functions[i].name])

(* One attempt of make_sync_request for action=getsourcecode and, when     *)
(* the retry loop ends, the rest of get_contract_name and lines 163-179.   *)
GetName(r) ==
    /\ At(r, "name", "name_sleep")
    /\ \E out \in GetSourceOutcomes :
        LET q == reqs[r]
            f == retry_with_backoff(FrameAt(q, "name_sleep"), max_retries, out)
            q1 == [q EXCEPT !.retry = Keep(f), !.did = @ \cup {"getsourcecode"}]
        IN IF f.pc = "sleeping"
           THEN Continue(r, [q1 EXCEPT !.pc = "name_sleep"], TRUE)
           ELSE Continue(r, Return(q1,
                    FinalReport(q.checksum_address, get_contract_name(f),
                                q.view_functions,
                                classify_all(CallResults(q), q.view_functions, 1))),
                    FALSE)
    /\ UNCHANGED <<callVars, retryVars, batchVars, rateVars, service, initialized,
                   connection_verified, verifyCalls>>

Next ==
    \E r \in DOMAIN reqs :
        \/ Start(r)
        \/ Probe(r)
        \/ Validate(r)
        \/ GetCode(r)
        \/ Acquire(r)
        \/ GetAbi(r)
        \/ Instantiate(r)
        \/ \E i \in 1..Len(reqs[r].tasks) : Invoke(r, i)
        \/ Collect(r)
        \/ GetName(r)

Spec == Init /\ [][Next]_vars

SpecOverlap == InitOverlap /\ [][Next]_vars

-----------------------------------------------------------------------------
(* Properties of analyze_contract. *)

Done(r) == reqs[r].pc = "done"

(* The reason a report gives: of an error, of a warning, else its status. *)
Reason(report) ==
    IF "error" \in DOMAIN report THEN report.error.reason
    ELSE IF "message" \in DOMAIN report THEN report.message
    ELSE report.status

NetworkSteps ==
    {"is_connected", "get_code", "getabi", "contract", "call", "getsourcecode"}

(* C7: a request whose input is not 0x followed by 40 hex digits makes no  *)
(* network call, and its report is the invalid-address-format error.       *)
InvalidAddressNoNetwork ==
    \A r \in DOMAIN reqs :
        ~IsHexAddress(reqs[r].contract_address) =>
            /\ reqs[r].did = {}
            /\ Done(r) => /\ reqs[r].report.status = "error"
                          /\ Reason(reqs[r].report) = "invalid address format"

(* The steps that come after the gate that gives the reason. *)
LaterSteps(reason) ==
    CASE reason \in {"initialization failed", "invalid address format"} ->
            NetworkSteps \ {"is_connected"}
      [] reason = "not a contract address" ->
            {"getabi", "contract", "call", "getsourcecode"}
      [] reason \in {"ABI unavailable", "no zero-argument view functions found"} ->
            {"contract", "call", "getsourcecode"}
      [] reason = "instance creation failed" -> {"call", "getsourcecode"}
      [] OTHER -> {}

GateOrder(q) ==
    /\ "get_code" \in q.did => MatchesAddressPattern(q.contract_address)
    /\ "getabi" \in q.did => q.is_contract
    /\ "contract" \in q.did => q.abi.some /\ q.view_functions # <<>>
    /\ ("call" \in q.did \/ "getsourcecode" \in q.did) => q.contract.some
    /\ q.pc = "done" => q.did \cap LaterSteps(Reason(q.report)) = {}

(* C8: a request that has returned takes no further step, the report of a  *)
(* failed gate is returned before any later step has run, and each step    *)
(* runs only after the gates before it have passed: get_code after the     *)
(* address matched, getabi after get_code found code, the contract handle  *)
(* after an ABI with an invocable function, the calls and the name lookup  *)
(* after the handle.                                                       *)
TerminalAtFirstFailingGate ==
    [][\A r \in DOMAIN reqs :
            /\ GateOrder(reqs'[r])
            /\ Done(r) => reqs'[r] = reqs[r]]_vars

(* A request has returned "ABI unavailable" after it asked for the ABI;    *)
(* another gate would have failed later.                                   *)
TerminalAtFirstFailingGateWitness ==
    \E r \in DOMAIN reqs :
        /\ Done(r)
        /\ Reason(reqs[r].report) = "ABI unavailable"
        /\ reqs[r].did = {"is_connected", "get_code", "getabi"}

(* C9: verify_connection is called at most once, whatever the requests.    *)
ProbeAtMostOnce == verifyCalls <= 1

(* C10: every report that analyze_contract returns has a status among      *)
(* success, warning and error, a timestamp, and the address, as a field or *)
(* in its error text.                                                      *)
ReportCarriesAddress ==
    \A r \in DOMAIN reqs :
        (Done(r) /\ "tool" \notin DOMAIN reqs[r].report) =>
            /\ reqs[r].report.status \in {"success", "warning", "error"}
            /\ "timestamp" \in DOMAIN reqs[r].report
            /\ \/ "contract_address" \in DOMAIN reqs[r].report
               \/ /\ "error" \in DOMAIN reqs[r].report
                  /\ reqs[r].report.error.mentions # {}

-----------------------------------------------------------------------------
(* The success report. *)

NamesOf(entries) == [i \in 1..Len(entries) |-> entries[i].function_name]

FailedOf(report) ==
    IF report.failed_functions.some THEN report.failed_functions.v ELSE <<>>

(* C11: in a success report every outcome of the batch is in exactly one   *)
(* of successful_functions and failed_functions, by its status; the two    *)
(* lists keep the order of the functions selected from the ABI; the two    *)
(* counts add up to total_view_functions, the number of functions          *)
(* selected; and the report is a success whether or not a name was found.  *)
SuccessPartition ==
    \A r \in DOMAIN reqs :
        (Done(r) /\ reqs[r].report.status = "success") =>
            LET q == reqs[r]
                rep == q.report
                results == CallResults(q)
                selected == extract_view_functions(q.abi.v)
                ok == SelectSeq(results, LAMBDA x : x.status = "success")
                bad == SelectSeq(results, LAMBDA x : x.status # "success")
            IN /\ NamesOf(results) = [i \in 1..Len(selected) |-> selected[i].name]
               /\ NamesOf(rep.successful_functions) = NamesOf(ok)
               /\ NamesOf(FailedOf(rep)) = NamesOf(bad)
               /\ \A i \in 1..Len(rep.successful_functions) :
                    rep.successful_functions[i].status = "success"
               /\ \A i \in 1..Len(FailedOf(rep)) :
                    FailedOf(rep)[i].status = "failed"
               /\ rep.analysis_summary.successful_calls = Len(ok)
               /\ rep.analysis_summary.failed_calls = Len(bad)
               /\ rep.analysis_summary.total_view_functions = Len(selected)
               /\ Len(ok) + Len(bad) = Len(selected)

(* A success report of two functions, the first failed and the second      *)
(* successful, and no contract name.                                       *)
SuccessPartitionWitness ==
    \E r \in DOMAIN reqs :
        /\ Done(r)
        /\ reqs[r].report.status = "success"
        /\ ~reqs[r].report.contract_name.some
        /\ Len(reqs[r].report.successful_functions) = 1
        /\ Len(FailedOf(reqs[r].report)) = 1
        /\ CallResults(reqs[r])[1].status # "success"

(* C12: a request that obtained the ABI, of which the filter selects no    *)
(* function, returns a warning with the number of entries of type function *)
(* in the ABI, and makes neither a contract handle nor a call.             *)
NoInvocableIsWarning ==
    \A r \in DOMAIN reqs :
        LET q == reqs[r]
        IN (Done(r) /\ q.abi.some /\ extract_view_functions(q.abi.v) = <<>>) =>
                /\ q.report.status = "warning"
                /\ q.report.total_functions = total_functions(q.abi.v)
                /\ q.did \cap {"contract", "call"} = {}

(* C17: a request never ends with an exception raised to its caller, and   *)
(* what it returns is a report with a status among success, warning and    *)
(* error.                                                                  *)
AlwaysReturnsReport ==
    \A r \in DOMAIN reqs :
        /\ reqs[r].pc # "raised"
        /\ Done(r) => reqs[r].report.status \in {"success", "warning", "error"}

(* C19: is_contract_address returns True exactly when the last get_code    *)
(* returned bytecode that is not empty; when get_code raised at every       *)
(* attempt it returns False and raises nothing, and analyze_contract        *)
(* returns the not-a-contract error, the report it returns for empty        *)
(* bytecode.                                                                *)
IsContractIffCode ==
    \A r \in DOMAIN reqs :
        LET q == reqs[r]
        IN ("get_code" \in q.did /\ q.pc \notin {"get_code", "get_code_sleep"}) =>
                /\ q.is_contract <=> (q.code.v.ok /\ Len(q.code.v.val) > 0)
                /\ ~q.is_contract =>
                        /\ q.pc = "done"
                        /\ q.report = NotContractReport(q.checksum_address)

(* get_code raised at every attempt of a request for a well-formed address *)
(* and the request returned the not-a-contract error.                      *)
IsContractIffCodeWitness ==
    \E r \in DOMAIN reqs :
        /\ Done(r)
        /\ reqs[r].contract_address = LowerAddress
        /\ reqs[r].code = Some(Raises("Web3Exception"))
        /\ Reason(reqs[r].report) = "not a contract address"

(* C20: verify_connection gives up, and the request returns the            *)
(* initialization failure, only after the last attempt of the budget: a    *)
(* probe that returned False or raised before that is attempted again.     *)
ProbeRetriedUntilExhausted ==
    [][\A r \in DOMAIN reqs :
            (reqs[r].pc \in {"probe", "probe_sleep"} /\ reqs'[r].pc = "done") =>
                FrameAt(reqs[r], "probe_sleep").attempt = verify_max_retries]_vars

(* Spec with the scheduling of the event loop: a coroutine that can run is *)
(* run, and every call to the outside returns or raises.                   *)
SpecLive == Init /\ [][Next]_vars /\ WF_vars(Next)

(* No task of the batch of a request that has ended is new or sleeping. *)
FanInComplete ==
    \A r \in DOMAIN reqs :
        reqs[r].pc \in {"done", "raised"} =>
            \A i \in 1..Len(reqs[r].tasks) : reqs[r].tasks[i].pc = "done"

(* Every request ends: it returns or it raises. *)
EventuallyEnds == <>(\A r \in DOMAIN reqs : reqs[r].pc \in {"done", "raised"})

(* C21: analyze_contract has returned its report only when every task of   *)
(* its batch has completed or failed, and every call of analyze_contract   *)
(* eventually returns a report.                                            *)
FanInAndTermination ==
    /\ []FanInComplete
    /\ <>(\A r \in DOMAIN reqs : reqs[r].entry = "analyze_contract" => Done(r))

-----------------------------------------------------------------------------
(* SpecFilter: extract_view_functions called on an ABI.                    *)

ViewNoInputs == AbiFunction("name", "view", <<>>, <<"string">>)

ViewOneInput == AbiFunction("balanceOf", "view", <<"address">>, <<"uint256">>)

NonpayableNoInputs == AbiFunction("withdraw", "nonpayable", <<>>, <<>>)

PureNoInputs == AbiFunction("totalSupply", "pure", <<>>, <<"uint256">>)

(* An entry of an old compiler: `constant` instead of stateMutability. *)
LegacyConstant ==
    [type |-> "function", name |-> "decimals", constant |-> TRUE,
     inputs |-> <<>>, outputs |-> <<"uint8">>]

(* An entry without the key inputs. *)
ViewWithoutInputsKey ==
    [type |-> "function", name |-> "symbol", stateMutability |-> "view",
     outputs |-> <<"string">>]

(* An entry without the key type. *)
ViewWithoutType ==
    [name |-> "owner", stateMutability |-> "view", inputs |-> <<>>,
     outputs |-> <<"address">>]

AbiEntries ==
    {ViewNoInputs, ViewOneInput, NonpayableNoInputs, PureNoInputs,
     LegacyConstant, ViewWithoutInputsKey, ViewWithoutType, AbiEvent("Transfer")}

InitFilter ==
    /\ RetryIdle
    /\ BatchIdle
    /\ RateIdle
    /\ InspectIdle
    /\ arg \in SeqsUpTo(AbiEntries, MaxAbiLen)
    /\ ret = <<>>

FilterCall ==
    /\ ret = <<>>
    /\ ret' = <<extract_view_functions(arg)>>
    /\ UNCHANGED <<arg, retryVars, batchVars, rateVars, inspectVars>>

NextFilter == FilterCall

SpecFilter == InitFilter /\ [][NextFilter]_vars

(* kind = function, mutability view or pure, no declared input. *)
Invocable(item) ==
    /\ "type" \in DOMAIN item /\ item.type = "function"
    /\ "stateMutability" \in DOMAIN item
    /\ item.stateMutability \in {"view", "pure"}
    /\ "inputs" \in DOMAIN item => item.inputs = <<>>

(* C13: extract_view_functions returns the entries of the ABI that are     *)
(* functions, view or pure, without inputs: each of them once, in the      *)
(* order of the ABI, and nothing else; of a view function without inputs,  *)
(* a view function with one input and a nonpayable function without        *)
(* inputs it returns the first only.                                       *)
FilterSelectsInvocable ==
    ret # <<>> =>
        LET out == ret[1]
            idx == {i \in 1..Len(arg) : Invocable(arg[i])}
            kth(k) == CHOOSE i \in idx : Cardinality({j \in idx : j < i}) = k - 1
        IN /\ Len(out) = Cardinality(idx)
           /\ \A k \in 1..Len(out) : out[k] = arg[kth(k)]
           /\ arg = <<ViewNoInputs, ViewOneInput, NonpayableNoInputs>> =>
                    out = <<ViewNoInputs>>

FilterSelectsInvocableWitness ==
    /\ arg = <<ViewNoInputs, ViewOneInput, NonpayableNoInputs>>
    /\ ret = <<<<ViewNoInputs>>>>

-----------------------------------------------------------------------------
(* SpecClassify: one pass of the loop of contract_analyzer.py lines        *)
(* 131-157 over a successful call result that is an integer.               *)

(* Integers around 10^12, 10^15 and 10^18, in limbs. *)
IntInputs ==
    {<<a, b, c, d>> : a \in {0, 1, 1000}, b \in {0, 1, 999, 1000, 999999},
                      c \in {0, 500000, 999999}, d \in {0, 1, 999999}}

OutputTypes == {"uint256", "uint8", "int256"}

(* What the call of a function without inputs returns, by the outputs its  *)
(* ABI entry declares: the decoder gives a value of the declared type, a    *)
(* list when there are several outputs.  An address comes in either casing. *)
ListValue(items) == [kind |-> "list", v |-> items]

TypedResults ==
    << <<(<<"bool">>), BoolValue(TRUE)>>,
       <<(<<"bool">>), BoolValue(FALSE)>>,
       <<(<<"address">>), StrValue(LowerAddress)>>,
       <<(<<"address">>), StrValue(to_checksum_address(LowerAddress))>>,
       <<(<<"string">>), StrValue("Token")>>,
       <<(<<"bytes32">>), StrValue("0x00")>>,
       <<(<<"string", "bool">>),
         ListValue(<<StrValue("Token"), BoolValue(TRUE)>>)>> >>

InitClassify ==
    /\ RetryIdle
    /\ BatchIdle
    /\ RateIdle
    /\ InspectIdle
    /\ \/ arg \in {<<SuccessDict("totalSupply", IntValue(v)),
                     AbiFunction("totalSupply", "view", <<>>, <<t>>)>> :
                        v \in IntInputs, t \in OutputTypes}
       \/ \E i \in DOMAIN TypedResults :
            arg = <<SuccessDict("owner", TypedResults[i][2]),
                    AbiFunction("owner", "view", <<>>, TypedResults[i][1])>>
    /\ ret = <<>>

ClassifyCall ==
    /\ ret = <<>>
    /\ ret' = <<classify(arg[1], arg[2])>>
    /\ UNCHANGED <<arg, retryVars, batchVars, rateVars, inspectVars>>

NextClassify == ClassifyCall

SpecClassify == InitClassify /\ [][NextClassify]_vars

UnitOf(entry) ==
    IF "formatted_value" \in DOMAIN entry THEN entry.formatted_value.unit
    ELSE "none"

(* C14: the entry of a successful outcome of a type that begins with uint  *)
(* and of value v has a scaled value in Ether when v >= 10^18, in          *)
(* milli-Ether when 10^15 <= v < 10^18, in micro-Ether when                *)
(* 10^12 <= v < 10^15, and none when v < 10^12.                            *)
ScalingTiers ==
    (ret # <<>> /\ StartsWithUint(arg[2].outputs[1])) =>
        LET v == arg[1].result.v
        IN UnitOf(ret[1]) =
                IF IntAtLeast(v, Ten18) THEN "Ether"
                ELSE IF IntAtLeast(v, Ten15) THEN "milli-Ether"
                ELSE IF IntAtLeast(v, Ten12) THEN "micro-Ether"
                ELSE "none"

(* Python's bool(value): the truth value of a decoded value. *)
bool(value) ==
    CASE value.kind = "bool" -> value.v
      [] value.kind = "int" -> value.v # <<0, 0, 0, 0>>
      [] value.kind = "None" -> FALSE
      [] OTHER -> value.v # <<>> /\ value.v # ""

BasicFields == {"function_name", "result", "type", "status"}

BoolOutcomeReported ==
    /\ ret # <<>>
    /\ get_output_type(arg[2]) = "bool"
    /\ ret[1].result = BoolValue(TRUE)

-----------------------------------------------------------------------------
(* SpecFetchAbi: one get_contract_abi, with the attempts of its transport. *)

(* The values of the key result of a body: texts, and values that are no   *)
(* text.                                                                   *)
AbiResults ==
    {EmptyText, NotJson, JsonText(JsonDict), JsonText(JsonNull), JsonNull,
     JsonList(<<ViewNoInputs>>)}
    \cup {JsonText(JsonList(abi)) : abi \in SeqsUpTo(AbiEntries, 2)}

(* The decoded bodies: dictionaries with or without the keys status and    *)
(* result, and a body that is a list.                                      *)
AbiBodies ==
    {Response(st, res) : st \in {"0", "1"}, res \in AbiResults}
    \cup {[result |-> res] : res \in AbiResults}
    \cup {[status |-> "1", message |-> "OK"], JsonList(<<>>)}

FetchAbiOutcomes ==
    {Returns(b) : b \in AbiBodies} \cup {Raises(e) : e \in HttpExceptions}

InitFetchAbi ==
    /\ RetryIdle
    /\ BatchIdle
    /\ RateIdle
    /\ InspectIdle
    /\ CallIdle

(* One attempt of make_sync_request and, when the retry loop ends, the     *)
(* rest of get_contract_abi.  arg is what the last attempt did.            *)
FetchAbiAttempt ==
    /\ ret = <<>>
    /\ \E out \in FetchAbiOutcomes :
        LET f == retry_with_backoff(
                    IF rt.pc = "sleeping" THEN retry_resume(rt) ELSE rt,
                    max_retries, out)
        IN /\ rt' = f
           /\ arg' = <<out>>
           /\ ret' = IF f.pc = "sleeping" THEN <<>> ELSE <<get_contract_abi(f)>>
    /\ UNCHANGED <<rtMax, rtHist, batchVars, rateVars, inspectVars>>

NextFetchAbi == FetchAbiAttempt

SpecFetchAbi == InitFetchAbi /\ [][NextFetchAbi]_vars

(* The transport returned a dictionary of status "1" whose result is a     *)
(* text that encodes a JSON array.                                         *)
IsAbiAnswer(out) ==
    /\ out.ok
    /\ "status" \in DOMAIN out.val /\ out.val.status = "1"
    /\ "result" \in DOMAIN out.val
    /\ "text" \in DOMAIN out.val.result /\ out.val.result.text = "json"
    /\ out.val.result.value.json = "list"

(* C15: get_contract_abi returns and never raises; it returns None when    *)
(* the transport raised after its retries, when the status is not "1",     *)
(* when the result is empty, is no JSON or is no array; it returns an ABI  *)
(* only when the status is "1" and the result parses to an array, and then *)
(* that array.                                                             *)
FetchAbiNeverRaises ==
    ret # <<>> =>
        /\ "some" \in DOMAIN ret[1]
        /\ ret[1].some => /\ IsAbiAnswer(arg[1])
                          /\ ret[1].v = arg[1].val.result.value.items
        /\ (~arg[1].ok \/ ~IsAbiAnswer(arg[1])) => ret[1] = Absent

(* The transport raised at every attempt and get_contract_abi returned     *)
(* None.                                                                   *)
FetchAbiNeverRaisesWitness ==
    /\ ret = <<Absent>>
    /\ rt.pc = "raised"
    /\ rt.calls = max_retries + 1

-----------------------------------------------------------------------------
(* SpecSummary: one get_contract_summary(contract_address)                 *)
(* (contract_analyzer.py lines 219-242).                                   *)

(* The frame of the call; did is the calls it has made to the outside, in  *)
(* the order it made them.                                                 *)
NewSummary(contract_address) ==
    [contract_address |-> contract_address,
     pc |-> "start",
     retry |-> RetryFrame,
     did |-> <<>>,
     checksum_address |-> <<>>,
     is_contract |-> FALSE,
     is_verified |-> FALSE,
     report |-> NoReport]

InitSummary ==
    /\ Quiet
    /\ initialized = FALSE
    /\ connection_verified = FALSE
    /\ reqs \in [{1} -> {NewSummary(a) : a \in AddressInputs}]
    /\ running = 0
    /\ verifyCalls = 0
    /\ service = <<>>

SummaryUnchanged ==
    UNCHANGED <<callVars, retryVars, batchVars, rateVars, service, initialized,
                connection_verified, verifyCalls>>

(* Lines 229-232. *)
SummaryValidate(r) ==
    /\ running = 0
    /\ reqs[r].pc = "start"
    /\ LET q == reqs[r]
       IN IF ~is_valid_ethereum_address(q.contract_address)
          THEN Continue(r, Return(q, [error |-> "invalid address format"]), FALSE)
          ELSE Continue(r, [q EXCEPT !.pc = "get_code",
                                    !.checksum_address =
                                        to_checksum_address(q.contract_address)],
                        FALSE)
    /\ SummaryUnchanged

(* One attempt of get_code in is_contract_address, line 237. *)
SummaryGetCode(r) ==
    /\ At(r, "get_code", "get_code_sleep")
    /\ \E checksum_address \in {to_checksum_address(reqs[r].checksum_address)} :
       \E out \in GetCodeOutcomes(checksum_address) :
        LET q == reqs[r]
            f == retry_with_backoff(FrameAt(q, "get_code_sleep"), max_retries,
                                    get_code(out))
            q1 == [q EXCEPT !.retry = Keep(f), !.did = Append(@, "get_code")]
        IN IF f.pc = "sleeping"
           THEN Continue(r, [q1 EXCEPT !.pc = "get_code_sleep"], TRUE)
           ELSE Continue(r, [q1 EXCEPT !.is_contract = is_contract_address(f),
                                      !.pc = "verified_acquire"], FALSE)
    /\ SummaryUnchanged

(* `async with self.throttler` of the two getsourcecode requests. *)
SummaryAcquire(r) ==
    /\ \/ At(r, "verified_acquire", "verified_poll")
       \/ At(r, "name_acquire", "name_poll")
    /\ \E free \in BOOLEAN :
        LET q == reqs[r]
            first == q.pc \in {"verified_acquire", "verified_poll"}
        IN IF free
           THEN Continue(r, [q EXCEPT !.pc = IF first THEN "verified" ELSE "name",
                                      !.retry = RetryFrame], FALSE)
           ELSE Continue(r, [q EXCEPT !.pc = IF first THEN "verified_poll"
                                            ELSE "name_poll"], TRUE)
    /\ SummaryUnchanged

(* One attempt of the getsourcecode request of is_contract_verified, line  *)
(* 238.                                                                    *)
SummaryVerified(r) ==
    /\ At(r, "verified", "verified_sleep")
    /\ \E out \in GetSourceOutcomes :
        LET q == reqs[r]
            f == retry_with_backoff(FrameAt(q, "verified_sleep"), max_retries, out)
            q1 == [q EXCEPT !.retry = Keep(f), !.did = Append(@, "getsourcecode")]
        IN IF f.pc = "sleeping"
           THEN Continue(r, [q1 EXCEPT !.pc = "verified_sleep"], TRUE)
           ELSE Continue(r, [q1 EXCEPT !.is_verified = is_contract_verified(f),
                                       !.pc = "name_acquire"], FALSE)
    /\ SummaryUnchanged

(* One attempt of the getsourcecode request of get_contract_name, line     *)
(* 239, and lines 235-242.                                                 *)
SummaryName(r) ==
    /\ At(r, "name", "name_sleep")
    /\ \E out \in GetSourceOutcomes :
        LET q == reqs[r]
            f == retry_with_backoff(FrameAt(q, "name_sleep"), max_retries, out)
            q1 == [q EXCEPT !.retry = Keep(f), !.did = Append(@, "getsourcecode")]
        IN IF f.pc = "sleeping"
           THEN Continue(r, [q1 EXCEPT !.pc = "name_sleep"], TRUE)
           ELSE Continue(r, Return(q1, [address |-> q.checksum_address,
                                        is_contract |-> q.is_contract,
                                        is_verified |-> q.is_verified,
                                        contract_name |-> get_contract_name(f)]),
                         FALSE)
    /\ SummaryUnchanged

NextSummary ==
    \E r \in DOMAIN reqs :
        \/ SummaryValidate(r)
        \/ SummaryGetCode(r)
        \/ SummaryAcquire(r)
        \/ SummaryVerified(r)
        \/ SummaryName(r)

SpecSummary == InitSummary /\ [][NextSummary]_vars

(* C16: get_contract_summary calls nothing outside but get_code and the    *)
(* getsourcecode request: no getabi request, no contract handle, no        *)
(* function call, no liveness probe; for an address that does not pass the *)
(* validation it calls nothing outside at all.                             *)
SummaryIsLight ==
    \A r \in DOMAIN reqs :
        /\ \A i \in 1..Len(reqs[r].did) :
                reqs[r].did[i] \in {"get_code", "getsourcecode"}
        /\ verifyCalls = 0
        /\ ~MatchesAddressPattern(reqs[r].contract_address) =>
                /\ reqs[r].did = <<>>
                /\ Done(r) => "error" \in DOMAIN reqs[r].report

(* A summary of a contract that is verified. *)
SummaryIsLightWitness ==
    \E r \in DOMAIN reqs :
        /\ Done(r)
        /\ reqs[r].did = <<"get_code", "getsourcecode", "getsourcecode">>
        /\ reqs[r].report.is_contract
        /\ reqs[r].report.is_verified
        /\ reqs[r].report.contract_name = Some(TokenName)

=============================================================================
